---- MODULE Spec2Model ----
(***************************************************************************)
(* A model of the Pesapal API v3 client (pesapal_v3/client.py, types.py):  *)
(* the cached bearer token and its expiry, the generic request execution   *)
(* and the public operations built on it.  The gateway and the clock are   *)
(* the environment: every reply, transport failure and elapsed time is an  *)
(* input of the action that models the call.                               *)
(***************************************************************************)
EXTENDS Integers, Sequences, FiniteSets, TLC

(***************************************************************************)
(* Python / JSON values.  Every value is a record tagged by k, so that     *)
(* values of different Python types are comparable.                        *)
(***************************************************************************)
Absent == [k |-> "absent"]
PyNone == [k |-> "none"]
PyStr(s) == [k |-> "str", s |-> s]
PyNum(n) == [k |-> "num", n |-> n]
PyList(items) == [k |-> "list", items |-> items]
NotJson == [k |-> "notjson"]

\* The keys of the JSON objects: those the code reads or writes, and two
\* the code reads nowhere, error_type (a field of the gateway's error
\* object) and extra, which stand for every other key an object may have.
Keys ==
    {"token", "expiryDate", "expires_in", "token_type",
     "error", "message", "code", "error_type", "extra",
     "ipn_id", "url", "created_date", "ipn_notification_type", "status",
     "order_tracking_id", "merchant_reference", "redirect_url",
     "payment_method", "amount", "confirmation_code",
     "payment_status_description", "description", "payment_account",
     "call_back_url", "status_code", "payment_status_code", "currency"}

\* A dict: every key of Keys maps to its value, or to Absent.
PyDict(r) ==
    [k |-> "dict",
     f |-> [key \in Keys |-> IF key \in DOMAIN r THEN r[key] ELSE Absent]]

EmptyDict == [k |-> "dict", f |-> [key \in Keys |-> Absent]]

IsDict(v) == v.k = "dict"

\* Python truthiness (bool(v)).
Truthy(v) ==
    CASE v.k = "none" -> FALSE
      [] v.k = "str" -> v.s # ""
      [] v.k = "num" -> v.n # 0
      [] v.k = "list" -> v.items # << >>
      [] v.k = "dict" -> \E key \in Keys : v.f[key] # Absent
      [] OTHER -> FALSE

\* key in d, for a dict d.
HasKey(d, key) == d.f[key] # Absent

\* d.get(key, default), for a dict d.
DictGet(d, key, default) == IF HasKey(d, key) THEN d.f[key] ELSE default

\* isinstance(v, (int, float))
IsNumber(v) == v.k = "num"

\* str(v) as an f-string interpolates it.
Str(v) ==
    CASE v.k = "str" -> v.s
      [] v.k = "num" -> ToString(v.n)
      [] v.k = "none" -> "None"
      [] OTHER -> "<object>"

(***************************************************************************)
(* Exceptions and results.                                                 *)
(***************************************************************************)
\* A formatted message: the format string and the values interpolated.
Msg(fmt, args) == [fmt |-> fmt, args |-> args]

\* PesapalError(message, response_data); response_data defaults to None.
PesapalError(message, response_data) ==
    [exc |-> "PesapalError", message |-> message, response_data |-> response_data]

\* An exception of a builtin kind (ValueError, TypeError, AttributeError).
Builtin(kind, message) == [exc |-> kind, message |-> message]

\* A normal return.
Return(value) == [exc |-> "none", value |-> value]

Raised(out) == out.exc # "none"

(***************************************************************************)
(* Configuration and session (Pesapal.__init__).                           *)
(***************************************************************************)
\* The PesapalConfig the client was constructed with (tests/conftest.py).
config ==
    [consumer_key |-> "test_consumer_key",
     consumer_secret |-> "test_consumer_secret",
     api_base_url |-> "https://cybqa.pesapal.com/pesapalv3/api"]

\* session.headers after __init__; Authorization is not among them.
session_headers ==
    [Accept |-> "application/json",
     ContentType |-> "application/json",
     UserAgent |-> "pesapal-py-v3/1.0.0",
     Authorization |-> Absent]

\* The attribute __init__ sets on the session: (connect, read) seconds.
session_timeout == <<10, 30>>

\* self.session = requests.Session(): open, close() not called yet.
Session == [k |-> "Session", closes |-> 0]

\* Pesapal.close: a Session object is truthy, so session.close() is called.
close(session) ==
    IF session.k = "Session"
    THEN [session EXCEPT !.closes = @ + 1]
    ELSE session

\* An __exit__ that tells the with statement to drop the exception.
exit_swallows(session) == [session |-> close(session), returns |-> TRUE]

\* Pesapal.__exit__: closes, and returns None (the with statement lets the
\* exception of the block go on when __exit__ returns a false value).
exit(session) == [session |-> close(session), returns |-> FALSE]

(***************************************************************************)
(* The gateway's answer to one HTTP request: a response (status, body) or  *)
(* an exception raised by the transport.                                   *)
(***************************************************************************)
Response(status_code, body) ==
    [t |-> "response", status_code |-> status_code, body |-> body]

TransportError(exc) == [t |-> "exception", exc |-> exc]

\* The exception classes of requests that a transport failure raises, each
\* with its direct base classes: ConnectTimeout is both a ConnectionError
\* and a Timeout; every one is a RequestException.
Bases ==
    [RequestException |-> {},
     Timeout |-> {"RequestException"},
     ReadTimeout |-> {"Timeout"},
     ConnectionError |-> {"RequestException"},
     ConnectTimeout |-> {"ConnectionError", "Timeout"},
     SSLError |-> {"ConnectionError"},
     ProxyError |-> {"ConnectionError"},
     TooManyRedirects |-> {"RequestException"},
     ChunkedEncodingError |-> {"RequestException"}]

\* issubclass(cls, base)
RECURSIVE issubclass(_, _)
issubclass(cls, base) ==
    /\ cls \in DOMAIN Bases
    /\ \/ cls = base
       \/ \E b \in Bases[cls] : issubclass(b, base)

\* except requests.exceptions.Timeout
IsTimeout(exc) == issubclass(exc, "Timeout")

\* A hierarchy in which no exception counts as a ConnectionError.
IsConnectionError_never(exc) == FALSE

\* except requests.exceptions.ConnectionError
IsConnectionError(exc) == issubclass(exc, "ConnectionError")

\* Response.raise_for_status(): raises HTTPError for 4xx and 5xx.
RaisesForStatus(status_code) == 400 <= status_code /\ status_code < 600

\* bool(response) is response.ok: False exactly when raise_for_status raises.
ResponseBool(reply) == ~RaisesForStatus(reply.status_code)

\* The except-HTTPError handler of _make_request.
http_error_handler(reply) ==
    LET status_code ==
            IF ResponseBool(reply) THEN PyNum(reply.status_code) ELSE PyNone
        error_data ==
            IF ResponseBool(reply)
            THEN IF reply.body = NotJson THEN EmptyDict ELSE reply.body
            ELSE EmptyDict
    IN  IF ~IsDict(error_data)
        THEN Builtin("AttributeError", Msg("object has no attribute 'get'", << >>))
        ELSE IF Truthy(DictGet(error_data, "message", PyNone))
        THEN PesapalError(Msg("HTTP {} error: {}",
                              <<status_code, error_data.f["message"]>>),
                          error_data)
        ELSE PesapalError(Msg("HTTP {} error", <<status_code>>), error_data)

\* The API-level error check of _make_request on a parsed 2xx body.
api_error_check(response_data) ==
    IF IsDict(response_data) /\ Truthy(DictGet(response_data, "error", PyNone))
    THEN LET error == DictGet(response_data, "error", EmptyDict)
         IN  IF ~IsDict(error)
             THEN Builtin("AttributeError",
                          Msg("object has no attribute 'get'", << >>))
             ELSE PesapalError(
                      Msg("API error: {}",
                          <<DictGet(error, "message", PyStr("Unknown API error"))>>),
                      response_data)
    ELSE Return(response_data)

\* The try block of _make_request: what the call makes of the gateway's answer.
request_try(reply) ==
    IF reply.t = "exception"
    THEN IF IsTimeout(reply.exc)
         THEN PesapalError(Msg("Request timed out", << >>), PyNone)
         ELSE IF IsConnectionError(reply.exc)
         THEN PesapalError(
                  Msg("Connection error - check your internet connection", << >>),
                  PyNone)
         ELSE PesapalError(Msg("Request failed: {}", <<PyStr(reply.exc)>>), PyNone)
    ELSE IF RaisesForStatus(reply.status_code)
    THEN http_error_handler(reply)
    ELSE IF reply.body = NotJson
    THEN PesapalError(Msg("Invalid JSON response: {}", << >>), PyNone)
    ELSE api_error_check(reply.body)

\* urljoin(f"{api_base_url}/", endpoint) for the client's relative endpoints.
urljoin(base, endpoint) == base \o "/" \o endpoint

\* The HTTP request session.request(...) sends; no timeout argument is passed.
HttpRequest(method, endpoint, data, params, authorization, reply) ==
    [method |-> method,
     url |-> urljoin(config.api_base_url, endpoint),
     json |-> data,
     params |-> params,
     headers |-> [session_headers EXCEPT !.Authorization = authorization],
     timeout |-> PyNone,
     reply |-> reply]

(***************************************************************************)
(* The token cache.  st = [token, expires_at, now]: the two cached fields  *)
(* and the clock time.time() reads.                                        *)
(***************************************************************************)
\* An expiry test turned around: the token counts as expired before its expiry.
is_token_valid_reversed(st) ==
    IF ~Truthy(st.token)
    THEN FALSE
    ELSE IF Truthy(st.expires_at) /\ st.now <= st.expires_at.n
    THEN FALSE
    ELSE TRUE

\* An expiry test off by one: the token still counts as valid at its expiry.
is_token_valid_strict(st) ==
    IF ~Truthy(st.token)
    THEN FALSE
    ELSE IF Truthy(st.expires_at) /\ st.now > st.expires_at.n
    THEN FALSE
    ELSE TRUE

\* Pesapal._is_token_valid
is_token_valid(st) ==
    IF ~Truthy(st.token)
    THEN FALSE
    ELSE IF Truthy(st.expires_at) /\ st.now >= st.expires_at.n
    THEN FALSE
    ELSE TRUE

\* The lifetime assumed when the reply has no expiryDate.
DefaultLifetime == 3600

\* 'token' not in response_data, then response_data['token'], as Python
\* evaluates them on each type of parsed body.
token_lookup(response_data) ==
    CASE response_data.k = "dict" ->
           IF HasKey(response_data, "token")
           THEN Return(response_data.f["token"])
           ELSE PesapalError(Msg("Authentication failed: {}", <<response_data>>),
                             PyNone)
      [] response_data.k = "list" ->
           IF \E i \in DOMAIN response_data.items :
                  response_data.items[i] = PyStr("token")
           THEN Builtin("TypeError", Msg("list indices must be integers", << >>))
           ELSE PesapalError(Msg("Authentication failed: {}", <<response_data>>),
                             PyNone)
      [] response_data.k \in {"num", "none"} ->
           Builtin("TypeError", Msg("argument is not iterable", << >>))

\* An expiry that ignores the lifetime the reply carries.
new_expires_at_default_only(response_data, old, now) == PyNum(now + 3600)

\* The expiry _refresh_token caches for a reply received at time now.
new_expires_at(response_data, old, now) ==
    LET expires_in == DictGet(response_data, "expiryDate", PyNum(DefaultLifetime))
    IN  IF IsNumber(expires_in) THEN PyNum(now + expires_in.n) ELSE old

\* A refresh that drops the cached token before it asks for a new one.
refresh_token_drops_token(st, auth) ==
    LET payload == [consumer_key |-> config.consumer_key,
                    consumer_secret |-> config.consumer_secret]
        req == HttpRequest("POST", "Auth/RequestToken", payload, PyNone,
                           Absent, auth.reply)
        got == request_try(auth.reply)
        after == [st EXCEPT !.now = st.now + auth.delay, !.token = PyNone]
    IN  IF Raised(got)
        THEN [st |-> after, reqs |-> <<req>>, out |-> got]
        ELSE IF Raised(token_lookup(got.value))
        THEN [st |-> after, reqs |-> <<req>>, out |-> token_lookup(got.value)]
        ELSE [st |-> [after EXCEPT
                        !.token = token_lookup(got.value).value,
                        !.expires_at =
                            new_expires_at(got.value, st.expires_at, after.now)],
              reqs |-> <<req>>,
              out |-> Return(PyNone)]

\* Pesapal._refresh_token.  auth = [reply, delay]: the gateway's answer to
\* the token request and the time the request took.
refresh_token(st, auth) ==
    LET payload == [consumer_key |-> config.consumer_key,
                    consumer_secret |-> config.consumer_secret]
        req == HttpRequest("POST", "Auth/RequestToken", payload, PyNone,
                           Absent, auth.reply)
        got == request_try(auth.reply)
        after == [st EXCEPT !.now = st.now + auth.delay]
    IN  IF Raised(got)
        THEN [st |-> after, reqs |-> <<req>>, out |-> got]
        ELSE LET tok == token_lookup(got.value)
             IN  IF Raised(tok)
                 THEN [st |-> after, reqs |-> <<req>>, out |-> tok]
                 ELSE [st |-> [after EXCEPT
                                 !.token = tok.value,
                                 !.expires_at =
                                     new_expires_at(got.value, st.expires_at,
                                                    after.now)],
                       reqs |-> <<req>>,
                       out |-> Return(PyNone)]

\* A request that carries the token cached before the token-ensure step.
make_request_stale_token(st, method, endpoint, data, params, auth, reply) ==
    LET ensured ==
            IF ~is_token_valid(st)
            THEN refresh_token(st, auth)
            ELSE [st |-> st, reqs |-> << >>, out |-> Return(PyNone)]
    IN  IF Raised(ensured.out)
        THEN ensured
        ELSE LET authorization == PyStr("Bearer " \o Str(st.token))
                 req == HttpRequest(method, endpoint, data, params,
                                    authorization, reply)
             IN  [st |-> ensured.st,
                  reqs |-> Append(ensured.reqs, req),
                  out |-> request_try(reply)]

\* A request that is sent although the refresh before it failed.
make_request_after_failed_refresh(st, method, endpoint, data, params, auth, reply) ==
    LET ensured ==
            IF ~is_token_valid(st)
            THEN refresh_token(st, auth)
            ELSE [st |-> st, reqs |-> << >>, out |-> Return(PyNone)]
        authorization == PyStr("Bearer " \o Str(ensured.st.token))
        req == HttpRequest(method, endpoint, data, params, authorization, reply)
    IN  [st |-> ensured.st,
         reqs |-> Append(ensured.reqs, req),
         out |-> request_try(reply)]

\* Pesapal._make_request with authenticated=True.  reply is the gateway's
\* answer to the request itself, auth the answer to a token request.
make_request(st, method, endpoint, data, params, auth, reply) ==
    LET ensured ==
            IF ~is_token_valid(st)
            THEN refresh_token(st, auth)
            ELSE [st |-> st, reqs |-> << >>, out |-> Return(PyNone)]
    IN  IF Raised(ensured.out)
        THEN ensured
        ELSE LET authorization == PyStr("Bearer " \o Str(ensured.st.token))
                 req == HttpRequest(method, endpoint, data, params,
                                    authorization, reply)
             IN  [st |-> ensured.st,
                  reqs |-> Append(ensured.reqs, req),
                  out |-> request_try(reply)]

\* A get_auth_token that ignores force_refresh.
get_auth_token_unforced(st, force_refresh, auth) ==
    IF ~is_token_valid(st)
    THEN LET r == refresh_token(st, auth)
         IN  IF Raised(r.out) THEN r ELSE [r EXCEPT !.out = Return(r.st.token)]
    ELSE [st |-> st, reqs |-> << >>, out |-> Return(st.token)]

\* Pesapal.get_auth_token
get_auth_token(st, force_refresh, auth) ==
    IF force_refresh \/ ~is_token_valid(st)
    THEN LET r == refresh_token(st, auth)
         IN  IF Raised(r.out) THEN r ELSE [r EXCEPT !.out = Return(r.st.token)]
    ELSE [st |-> st, reqs |-> << >>, out |-> Return(st.token)]

(***************************************************************************)
(* Request values and typed responses (types.py).                          *)
(***************************************************************************)
\* isinstance(v, cls) for the request dataclasses.
IsInstance(v, cls) == v.k = cls

\* AuthResponse.from_dict (the client itself reads the token reply directly)
AuthResponse_from_dict(data) ==
    IF ~IsDict(data)
    THEN Builtin("AttributeError", Msg("object has no attribute 'get'", << >>))
    ELSE Return([k |-> "AuthResponse",
                 token |-> DictGet(data, "token", PyStr("")),
                 expires_in |-> DictGet(data, "expires_in", PyNone),
                 token_type |-> DictGet(data, "token_type", PyNone),
                 expiry_date |-> DictGet(data, "expiryDate", PyNone)])

\* IPNResponse.from_dict
IPNResponse_from_dict(data) ==
    IF ~IsDict(data)
    THEN Builtin("AttributeError", Msg("object has no attribute 'get'", << >>))
    ELSE Return([k |-> "IPNResponse",
                 ipn_id |-> DictGet(data, "ipn_id", PyStr("")),
                 url |-> DictGet(data, "url", PyStr("")),
                 created_date |-> DictGet(data, "created_date", PyNone),
                 ipn_notification_type |->
                     DictGet(data, "ipn_notification_type", PyNone),
                 status |-> DictGet(data, "status", PyNone)])

\* OrderResponse.from_dict
OrderResponse_from_dict(data) ==
    IF ~IsDict(data)
    THEN Builtin("AttributeError", Msg("object has no attribute 'get'", << >>))
    ELSE Return([k |-> "OrderResponse",
                 order_tracking_id |-> DictGet(data, "order_tracking_id", PyStr("")),
                 merchant_reference |->
                     DictGet(data, "merchant_reference", PyStr("")),
                 redirect_url |-> DictGet(data, "redirect_url", PyStr("")),
                 error |-> DictGet(data, "error", PyNone),
                 status |-> DictGet(data, "status", PyNone)])

\* The fields of TransactionStatusResponse.
StatusFields ==
    {"payment_method", "amount", "created_date", "confirmation_code",
     "payment_status_description", "description", "message", "payment_account",
     "call_back_url", "status_code", "merchant_reference", "payment_status_code",
     "currency", "error", "status"}

\* TransactionStatusResponse.from_dict
TransactionStatusResponse_from_dict(data) ==
    IF ~IsDict(data)
    THEN Builtin("AttributeError", Msg("object has no attribute 'get'", << >>))
    ELSE Return([k |-> "TransactionStatusResponse",
                 f |-> [fld \in StatusFields |-> DictGet(data, fld, PyNone)]])

\* The optional fields of BillingAddress, left out of to_dict when None.
OptionalAddressFields ==
    {"country_code", "line_1", "line_2", "city", "state", "postal_code"}

RequiredAddressFields ==
    {"email_address", "phone_number", "first_name", "last_name"}

\* A to_dict that keeps every field, the absent ones with the value None.
BillingAddress_to_dict_all_fields(addr) ==
    [fld \in RequiredAddressFields \cup OptionalAddressFields |-> addr.f[fld]]

\* BillingAddress.to_dict
BillingAddress_to_dict(addr) ==
    LET present == {fld \in OptionalAddressFields : addr.f[fld] # PyNone}
    IN  [fld \in RequiredAddressFields \cup present |-> addr.f[fld]]

(***************************************************************************)
(* The authenticated operations.  Each returns [st, reqs, out]: the cache  *)
(* and clock after the call, the HTTP requests it sent in order, and its   *)
(* result or the exception it raised.                                      *)
(***************************************************************************)
NoCall(st, out) == [st |-> st, reqs |-> << >>, out |-> out]

\* cls.from_dict(data) of the three response classes.
from_dict(cls, data) ==
    CASE cls = "IPNResponse" -> IPNResponse_from_dict(data)
      [] cls = "OrderResponse" -> OrderResponse_from_dict(data)
      [] cls = "TransactionStatusResponse" ->
             TransactionStatusResponse_from_dict(data)

\* return cls.from_dict(response_data): the mapping is applied when the
\* request returned.
Mapped(r, cls) ==
    IF Raised(r.out) THEN r ELSE [r EXCEPT !.out = from_dict(cls, r.out.value)]

\* Pesapal.register_ipn
register_ipn(st, ipn_data, auth, reply) ==
    IF ~IsInstance(ipn_data, "IPNData")
    THEN NoCall(st, Builtin("ValueError",
                            Msg("ipn_data must be an IPNData instance", << >>)))
    ELSE LET payload == [url |-> ipn_data.url,
                         ipn_notification_type |-> ipn_data.ipn_notification_type]
         IN  Mapped(make_request(st, "POST", "URLSetup/RegisterIPN",
                                payload, PyNone, auth, reply),
                    "IPNResponse")

\* Pesapal.submit_order
submit_order(st, order_data, auth, reply) ==
    IF ~IsInstance(order_data, "OrderData")
    THEN NoCall(st, Builtin("ValueError",
                            Msg("order_data must be an OrderData instance", << >>)))
    ELSE LET payload ==
                 [id |-> order_data.id,
                  currency |-> order_data.currency,
                  amount |-> order_data.amount,
                  description |-> order_data.description,
                  callback_url |-> order_data.callback_url,
                  notification_id |-> order_data.notification_id,
                  billing_address |->
                      BillingAddress_to_dict(order_data.billing_address)]
         IN  Mapped(make_request(st, "POST", "Transactions/SubmitOrderRequest",
                                payload, PyNone, auth, reply),
                    "OrderResponse")

\* A status lookup that asks the gateway with a POST.
get_transaction_status_post(st, order_tracking_id, auth, reply) ==
    IF ~Truthy(order_tracking_id)
    THEN NoCall(st, Builtin("ValueError", Msg("order_tracking_id is required", << >>)))
    ELSE Mapped(make_request(st, "POST", "Transactions/GetTransactionStatus",
                             PyNone, [orderTrackingId |-> order_tracking_id],
                             auth, reply),
                "TransactionStatusResponse")

\* A status lookup that sends its request whatever the tracking id.
get_transaction_status_unchecked(st, order_tracking_id, auth, reply) ==
    Mapped(make_request(st, "GET", "Transactions/GetTransactionStatus",
                        PyNone, [orderTrackingId |-> order_tracking_id],
                        auth, reply),
           "TransactionStatusResponse")

\* Pesapal.get_transaction_status
get_transaction_status(st, order_tracking_id, auth, reply) ==
    IF ~Truthy(order_tracking_id)
    THEN NoCall(st, Builtin("ValueError", Msg("order_tracking_id is required", << >>)))
    ELSE LET params == [orderTrackingId |-> order_tracking_id]
         IN  Mapped(make_request(st, "GET", "Transactions/GetTransactionStatus",
                                PyNone, params, auth, reply),
                    "TransactionStatusResponse")

\* The static texts of the advisory records.
RefundInstructions ==
    <<"Pesapal API v3 does not provide direct refund endpoints.",
      "To process this refund, please:",
      "1. Log into your Pesapal merchant dashboard",
      "2. Navigate to Transactions > Find this transaction",
      "3. Use the refund option in the dashboard",
      "Or contact Pesapal support with the following details:">>

CancelInstructions ==
    <<"Pesapal API v3 does not provide direct cancellation endpoints.",
      "For pending/processing transactions, consider:",
      "1. Contact customer to stop any payment attempts",
      "2. Monitor transaction status - pending transactions may expire automatically",
      "3. If needed, contact Pesapal support for manual cancellation",
      "4. Use merchant dashboard to manage the transaction">>

\* except Exception as e: raise PesapalError(f"Failed to check transaction
\* status: {str(e)}").  The new error has no response_data; Python keeps
\* the exception it was raised from as its __context__.
lookup_failed(e) ==
    [exc |-> "PesapalError",
     message |-> Msg("Failed to check transaction status: {}", <<e.message>>),
     response_data |-> PyNone,
     context |-> e]

\* A comparison that lets every requested amount through.
Greater_never(a, b) == Return(FALSE)

\* A comparison that turns away a requested amount equal to the recorded one.
Greater_or_equal(a, b) ==
    IF IsNumber(a) /\ IsNumber(b)
    THEN Return(a.n >= b.n)
    ELSE Builtin("TypeError", Msg("'>=' not supported between instances", << >>))

\* amount > transaction_amount as Python evaluates it: numbers compare,
\* a number against None (or a string) is a TypeError.
Greater(a, b) ==
    IF IsNumber(a) /\ IsNumber(b)
    THEN Return(a.n > b.n)
    ELSE Builtin("TypeError", Msg("'>' not supported between instances", << >>))

\* An eligibility test that turns away the failed transactions only.
refund_eligible_unless_failed(status) ==
    status.f["payment_status_description"] # PyStr("Failed")

\* The eligibility test of refund_transaction: the status object has a
\* payment_status_description (it always has: a dataclass field) and it is
\* 'Completed'.
refund_eligible(status) ==
    status.f["payment_status_description"] = PyStr("Completed")

\* Pesapal.refund_transaction
refund_transaction(st, order_tracking_id, amount, reason, auth, reply) ==
    IF ~Truthy(order_tracking_id)
    THEN NoCall(st, Builtin("ValueError", Msg("order_tracking_id is required", << >>)))
    ELSE LET r == get_transaction_status(st, order_tracking_id, auth, reply)
         IN  IF Raised(r.out)
             THEN [r EXCEPT !.out = lookup_failed(r.out)]
             ELSE LET status == r.out.value
                      description == status.f["payment_status_description"]
                      transaction_amount == status.f["amount"]
                      refund_amount ==
                          IF amount # PyNone THEN amount ELSE transaction_amount
                      exceeds ==
                          IF amount # PyNone
                          THEN Greater(amount, transaction_amount)
                          ELSE Return(FALSE)
                  IN  IF ~refund_eligible(status)
                      THEN [r EXCEPT !.out =
                                PesapalError(
                                    Msg("Transaction with ID {} is not completed and cannot be refunded. Status: {}",
                                        <<order_tracking_id, description>>),
                                    PyNone)]
                      ELSE IF Raised(exceeds)
                      THEN [r EXCEPT !.out = exceeds]
                      ELSE IF exceeds.value
                      THEN [r EXCEPT !.out =
                                PesapalError(
                                    Msg("Refund amount ({}) cannot exceed transaction amount ({})",
                                        <<amount, transaction_amount>>),
                                    PyNone)]
                      ELSE [r EXCEPT !.out =
                                Return([order_tracking_id |-> order_tracking_id,
                                        transaction_amount |-> transaction_amount,
                                        refund_amount |-> refund_amount,
                                        reason |-> reason,
                                        request_type |->
                                            IF amount # PyNone
                                            THEN "partial_refund"
                                            ELSE "full_refund",
                                        status |-> "refund_requested",
                                        timestamp |-> r.st.now,
                                        instructions |-> RefundInstructions,
                                        support_details |->
                                            [order_tracking_id |-> order_tracking_id,
                                             refund_amount |-> refund_amount,
                                             reason |-> reason,
                                             support_email |-> "support@pesapal.com",
                                             merchant_phone |-> "+254-70-619-1729"]])]

\* A test that refuses the cancellation of completed transactions only.
never_cancellable_completed_only(status_description) ==
    status_description = PyStr("Completed")

\* status_description in ['Completed', 'Failed']
never_cancellable(status_description) ==
    status_description \in {PyStr("Completed"), PyStr("Failed")}

\* A test that takes every description for a cancellable one.
cancellable_whatever(status_description) == TRUE

\* status_description in ['Pending', 'Processing']
cancellable(status_description) ==
    status_description \in {PyStr("Pending"), PyStr("Processing")}

\* Pesapal.cancel_order
cancel_order(st, order_tracking_id, reason, auth, reply) ==
    IF ~Truthy(order_tracking_id)
    THEN NoCall(st, Builtin("ValueError", Msg("order_tracking_id is required", << >>)))
    ELSE LET r == get_transaction_status(st, order_tracking_id, auth, reply)
         IN  IF Raised(r.out)
             THEN [r EXCEPT !.out = lookup_failed(r.out)]
             ELSE LET status_description ==
                          r.out.value.f["payment_status_description"]
                  IN  IF never_cancellable(status_description)
                      THEN [r EXCEPT !.out =
                                PesapalError(
                                    Msg("Transaction with ID {} cannot be cancelled. Status: {}",
                                        <<order_tracking_id, status_description>>),
                                    PyNone)]
                      ELSE IF cancellable(status_description)
                      THEN [r EXCEPT !.out =
                                Return([order_tracking_id |-> order_tracking_id,
                                        current_status |-> status_description,
                                        reason |-> reason,
                                        request_type |-> "cancellation",
                                        status |-> "cancellation_requested",
                                        timestamp |-> r.st.now,
                                        instructions |-> CancelInstructions,
                                        support_details |->
                                            [order_tracking_id |-> order_tracking_id,
                                             reason |-> reason,
                                             support_email |-> "support@pesapal.com",
                                             merchant_phone |-> "+254-70-619-1729"]])]
                      ELSE [r EXCEPT !.out =
                                Return([order_tracking_id |-> order_tracking_id,
                                        current_status |-> status_description,
                                        reason |-> reason,
                                        status |-> "cancellation_not_applicable",
                                        message |->
                                            Msg("Transaction status '{}' does not require cancellation",
                                                <<status_description>>),
                                        timestamp |-> r.st.now])]

(***************************************************************************)
(* The request dataclasses and the configuration (types.py).  A            *)
(* constructor returns the object, or raises what __post_init__ raises.    *)
(* The base URL is a sequence of characters, so that rstrip acts on it.    *)
(***************************************************************************)
\* s.rstrip(ch) for a one-character ch.
RECURSIVE rstrip(_, _)
rstrip(s, ch) ==
    IF s # << >> /\ s[Len(s)] = ch
    THEN rstrip(SubSeq(s, 1, Len(s) - 1), ch)
    ELSE s

ValueError(text) == Builtin("ValueError", Msg(text, << >>))

\* PesapalConfig(consumer_key, consumer_secret, api_base_url)
PesapalConfig_post_init(consumer_key, consumer_secret, api_base_url) ==
    IF consumer_key = ""
    THEN ValueError("consumer_key is required")
    ELSE IF consumer_secret = ""
    THEN ValueError("consumer_secret is required")
    ELSE IF api_base_url = << >>
    THEN ValueError("api_base_url is required")
    ELSE Return([k |-> "PesapalConfig",
                 consumer_key |-> consumer_key,
                 consumer_secret |-> consumer_secret,
                 api_base_url |-> rstrip(api_base_url, "/")])

\* The required fields in the order __post_init__ tests them.
RequiredAddressOrder ==
    <<"email_address", "phone_number", "first_name", "last_name">>

\* BillingAddress(**f)
BillingAddress_post_init(f) ==
    LET empty == {i \in DOMAIN RequiredAddressOrder :
                     ~Truthy(f[RequiredAddressOrder[i]])}
    IN  IF empty # {}
        THEN LET i == CHOOSE j \in empty : \A l \in empty : j <= l
             IN  Builtin("ValueError",
                         Msg("{} is required", <<RequiredAddressOrder[i]>>))
        ELSE Return([k |-> "BillingAddress", f |-> f])

\* An amount test that lets the amount 0 through.
amount_invalid_negative_only(amount) == ~IsNumber(amount) \/ amount.n < 0

\* not isinstance(self.amount, (int, float)) or self.amount <= 0
amount_invalid(amount) == ~IsNumber(amount) \/ amount.n <= 0

\* OrderData(**a): a holds the seven fields.
OrderData_post_init(a) ==
    IF a.id = ""
    THEN ValueError("id is required")
    ELSE IF a.currency = ""
    THEN ValueError("currency is required")
    ELSE IF amount_invalid(a.amount)
    THEN ValueError("amount must be a positive number")
    ELSE IF a.description = ""
    THEN ValueError("description is required")
    ELSE IF a.callback_url = ""
    THEN ValueError("callback_url is required")
    ELSE IF a.notification_id = ""
    THEN ValueError("notification_id is required")
    ELSE IF ~IsInstance(a.billing_address, "BillingAddress")
    THEN ValueError("billing_address must be a BillingAddress instance")
    ELSE Return([k |-> "OrderData", id |-> a.id, currency |-> a.currency,
                 amount |-> a.amount, description |-> a.description,
                 callback_url |-> a.callback_url,
                 notification_id |-> a.notification_id,
                 billing_address |-> a.billing_address])

(***************************************************************************)
(* The environment's inputs: gateway replies, elapsed times, arguments.    *)
(***************************************************************************)
\* The clock reading at construction, and the width of the time windows.
Epoch == 1000
Slack == 1

\* An explicit lifetime (seconds) a gateway reply may carry.
ShortLifetime == 1

\* The time a token request may take.
MaxDelay == 1
Delays == 0 .. MaxDelay

\* The instants at which calls are made: within Slack seconds of the
\* construction, or of one default lifetime later.
Instants == {Epoch + a + b * DefaultLifetime : a \in 0 .. Slack, b \in 0 .. 1}

\* The number of public calls in a behaviour of Spec.
MaxCalls == 2

\* How many times the caller calls close() itself.
MaxCloses == 2

ExpiryDateString == PyStr("2030-01-01T00:00:00.0000000Z")

\* Token replies a well-behaved gateway gives.
AuthGoodBodies ==
    {PyDict([token |-> PyStr("T1")]),
     PyDict([token |-> PyStr("T2"), expiryDate |-> PyNum(ShortLifetime)]),
     PyDict([token |-> PyStr("T3"), expiryDate |-> ExpiryDateString])}

\* Replies whose token field is unusable, or missing.
AuthOddBodies ==
    {PyDict([token |-> PyStr("")]),
     PyDict([token |-> PyNone, expiryDate |-> PyNone]),
     PyDict([token |-> PyStr("T4"), expiryDate |-> PyNone]),
     PyDict([token |-> PyStr("T5"), expiryDate |-> PyNum(0)]),
     PyDict([status |-> PyStr("200")]),
     PyDict([extra |-> PyNum(1)]),
     EmptyDict}

\* 2xx bodies that report an API-level error, in each JSON type of `error`.
ErrorBodies ==
    {PyDict([error |-> PyDict([code |-> PyStr("x"), message |-> PyStr("bad")]),
             status |-> PyStr("500")]),
     PyDict([error |-> PyDict([code |-> PyStr("x")])]),
     PyDict([error |-> PyDict([error_type |-> PyStr("x")])]),
     PyDict([error |-> PyStr("bad creds")]),
     PyDict([error |-> PyNum(7)]),
     PyDict([error |-> PyList(<<PyStr("e")>>)])}

\* Bodies that are no JSON object, or no JSON at all.
NonObjectBodies ==
    {NotJson, PyNone, PyNum(5), PyList(<< >>), PyList(<<PyStr("token")>>)}

\* Replies with a status other than 2xx.
StatusReplies ==
    {Response(401, PyDict([error |-> PyStr("Invalid credentials")])),
     Response(401, PyDict([message |-> PyStr("Unauthorized")])),
     Response(500, NotJson),
     Response(404, PyList(<< >>)),
     Response(304, NotJson)}

TransportReplies == {TransportError(e) : e \in DOMAIN Bases}

\* Successful bodies of the three business endpoints.
IPNBody ==
    PyDict([ipn_id |-> PyStr("ipn1"), url |-> PyStr("https://example.com/ipn"),
            status |-> PyStr("Active")])

OrderBody ==
    PyDict([order_tracking_id |-> PyStr("X"),
            merchant_reference |-> PyStr("order1"),
            redirect_url |-> PyStr("https://pesapal.com/pay/X"),
            error |-> PyNone, status |-> PyStr("200")])

StatusBody(description, amount) ==
    PyDict([payment_status_description |-> description, amount |-> amount,
            currency |-> PyStr("KES"), error |-> PyNone])

TransactionAmount == 1000

StatusBodies ==
    {StatusBody(PyStr(d), PyNum(TransactionAmount)) :
        d \in {"Completed", "Failed", "Pending", "Processing", "Reversed"}}
    \cup {StatusBody(PyStr("Completed"), PyNone),
          StatusBody(PyStr("Completed"), Absent),
          StatusBody(Absent, PyNum(TransactionAmount)),
          StatusBody(PyNone, PyNum(TransactionAmount))}

\* The replies of the lean specification Spec.
LeanAuthReplies ==
    {Response(200, b) : b \in AuthGoodBodies}
    \cup {Response(401, PyDict([error |-> PyStr("Invalid credentials")]))}

LeanFailures ==
    {Response(401, PyDict([error |-> PyStr("Invalid credentials")]))}

\* The replies of SpecReplies: every kind of answer the gateway can give.
AnyFailure == {Response(200, b) : b \in ErrorBodies \cup NonObjectBodies}
                  \cup StatusReplies \cup TransportReplies

AnyAuthReplies ==
    {Response(200, b) : b \in AuthGoodBodies \cup AuthOddBodies}
    \cup {Response(300, PyDict([token |-> PyStr("T6")]))}
    \cup AnyFailure

\* Arguments of the public operations.
ValidIPN ==
    [k |-> "IPNData", url |-> "https://example.com/ipn",
     ipn_notification_type |-> "POST"]

ValidAddress ==
    [k |-> "BillingAddress",
     f |-> [fld \in RequiredAddressFields \cup OptionalAddressFields |->
              CASE fld = "email_address" -> PyStr("test@example.com")
                [] fld = "phone_number" -> PyStr("254700000000")
                [] fld = "first_name" -> PyStr("John")
                [] fld = "last_name" -> PyStr("Doe")
                [] fld = "country_code" -> PyStr("KE")
                [] OTHER -> PyNone]]

ValidOrder ==
    [k |-> "OrderData", id |-> "order1", currency |-> "KES",
     amount |-> PyNum(TransactionAmount),
     description |-> "Test payment",
     callback_url |-> "https://example.com/callback",
     notification_id |-> "ipn1", billing_address |-> ValidAddress]

\* Arguments of the constructors.  A base URL is a string over a letter
\* and the slash, of length at most MaxUrlLen.
MaxUrlLen == 2

UrlChars == {"a", "/"}

Urls == UNION {[1..n -> UrlChars] : n \in 0..MaxUrlLen}

ConfigInputs ==
    [consumer_key : {"", "test_consumer_key"},
     consumer_secret : {"", "test_consumer_secret"},
     api_base_url : Urls]

\* The fields of ValidAddress, with any of the required ones left empty,
\* and with the city given, empty or absent.
Cities == {PyNone, PyStr(""), PyStr("Nairobi")}

AddressInputs ==
    {[fld \in DOMAIN ValidAddress.f |->
         IF fld \in E THEN PyStr("")
         ELSE IF fld = "city" THEN city
         ELSE ValidAddress.f[fld]] :
        E \in SUBSET RequiredAddressFields, city \in Cities}

InvalidAmount == 0 - 100

Amounts == {PyNum(TransactionAmount), PyNum(0), PyNum(InvalidAmount), PyNone}

\* The fields of ValidOrder with the id, the amount or the notification id
\* replaced, and the billing address the application holds.
OrderInputs(billing_address) ==
    [id : {"", ValidOrder.id},
     currency : {ValidOrder.currency},
     amount : Amounts,
     description : {ValidOrder.description},
     callback_url : {ValidOrder.callback_url},
     notification_id : {"", ValidOrder.notification_id},
     billing_address : {billing_address}]

TrackingIds == {PyStr("X"), PyStr("")}

PartialAmount == 500
ExcessAmount == 1500

RefundAmounts ==
    {PyNone, PyNum(PartialAmount), PyNum(ExcessAmount), PyNum(TransactionAmount),
     PyNum(0), PyNum(0 - PartialAmount)}

(***************************************************************************)
(* The state machine.                                                      *)
(***************************************************************************)
VARIABLES
    token,        \* Pesapal._token
    expires_at,   \* Pesapal._token_expires_at
    now,          \* the clock time.time() reads
    calls,        \* the number of public calls made so far
    first,        \* the name of the first public call, if an authenticated one
    authTotal,    \* the number of token requests sent since construction
    issued,       \* the token field of the last reply a refresh accepted
    last,         \* the last public call: arguments, requests sent, outcome
    address,      \* the BillingAddress the application holds, or None
    order,        \* the OrderData the application holds, or None
    made,         \* the last construction of a record: arguments, outcome
    scope         \* the with-block around the client, and its session

vars == <<token, expires_at, now, calls, first, authTotal, issued, last,
          address, order, made, scope>>

\* What the application holds of the records it built.
records == <<address, order, made>>

St == [token |-> token, expires_at |-> expires_at, now |-> now]

AuthEndpoint == urljoin(config.api_base_url, "Auth/RequestToken")

IsAuthRequest(req) == req.method = "POST" /\ req.url = AuthEndpoint

AuthRequests(reqs) == {i \in DOMAIN reqs : IsAuthRequest(reqs[i])}

BusinessRequests(reqs) == {i \in DOMAIN reqs : ~IsAuthRequest(reqs[i])}

\* The gateway's answer made the request fail: _make_request raised, or
\* the refresh found no token in the answer.
RequestFailed(req) ==
    \/ Raised(request_try(req.reply))
    \/ IsAuthRequest(req) /\ Raised(token_lookup(request_try(req.reply).value))

\* The operations that send one authenticated request of their own.
AuthenticatedOps == {"register_ipn", "submit_order", "get_transaction_status"}

\* Pesapal.__init__: no token, no expiry.
Init ==
    /\ token = PyNone
    /\ expires_at = PyNone
    /\ now = Epoch
    /\ calls = 0
    /\ first = "none"
    /\ authTotal = 0
    /\ issued = PyNone
    /\ last = [op |-> "none", args |-> << >>, st0 |-> St, st1 |-> St,
               reqs |-> << >>, out |-> Return(PyNone)]
    /\ address = PyNone
    /\ order = PyNone
    /\ made = [cls |-> "none", args |-> << >>, out |-> Return(PyNone)]
    /\ scope = [block |-> "none", session |-> Session, caught |-> 0,
                direct |-> 0, escaped |-> Return(PyNone)]

\* Spec makes up to MaxCalls calls with the lean replies; SpecReplies makes
\* one call with any reply, possibly after one successful get_auth_token().
MayCall(rich) ==
    IF rich
    THEN \/ calls = 0
         \/ /\ calls = 1
            /\ last.op = "get_auth_token"
            /\ ~last.args.force_refresh
            /\ ~Raised(last.out)
    ELSE calls < MaxCalls

\* Whether the call's token request was answered with a reply the refresh
\* accepted: get_auth_token then returns, any other operation goes on to
\* send its own request.
RefreshAccepted(op, reqs, out) ==
    /\ AuthRequests(reqs) # {}
    /\ ~RequestFailed(reqs[1])
    /\ IF op = "get_auth_token" THEN ~Raised(out) ELSE BusinessRequests(reqs) # {}

\* A public call returned or raised: r = [st, reqs, out].
Done(op, args, r) ==
    /\ token' = r.st.token
    /\ expires_at' = r.st.expires_at
    /\ now' = r.st.now
    /\ calls' = calls + 1
    /\ first' = IF calls > 0 THEN first
                ELSE IF op \in AuthenticatedOps THEN op ELSE "other"
    /\ authTotal' = authTotal + Cardinality(AuthRequests(r.reqs))
    /\ issued' = IF RefreshAccepted(op, r.reqs, r.out)
                 THEN r.reqs[1].reply.body.f["token"]
                 ELSE issued
    /\ last' = [op |-> op, args |-> args, st0 |-> St, st1 |-> r.st,
                reqs |-> r.reqs, out |-> r.out]
    /\ UNCHANGED <<records, scope>>

\* The answers to a token request the environment may give: none is drawn
\* when the call sends no token request.
NoAuth == [reply |-> TransportError("unused"), delay |-> 0]

AuthInputs(rich, needed) ==
    IF ~needed
    THEN {NoAuth}
    ELSE IF rich
    THEN [reply : AnyAuthReplies, delay : Delays]
    ELSE [reply : LeanAuthReplies, delay : Delays]

\* Whether the token-ensure step of an authenticated call ends in an error,
\* so that no business request is sent and no reply to it is drawn.
EnsureFails(auth) == ~is_token_valid(St) /\ Raised(refresh_token(St, auth).out)

\* A gateway that answers the token request as documented.
GoodAuth(auth) == auth = NoAuth \/ auth.reply \in {Response(200, b) : b \in AuthGoodBodies}

\* The answers to a business request: good are the endpoint's successful
\* replies.  SpecReplies draws every failure too, when the token request
\* was answered as documented.
BusinessInputs(rich, auth, good) ==
    IF EnsureFails(auth)
    THEN {TransportError("unused")}
    ELSE IF rich /\ GoodAuth(auth)
    THEN good \cup AnyFailure
    ELSE good \cup LeanFailures

\* Time passes between two calls.
Tick(rich) ==
    /\ MayCall(rich)
    /\ calls > 0
    /\ \E t \in Instants :
          /\ t > now
          /\ now' = t
    /\ UNCHANGED <<token, expires_at, calls, first, authTotal, issued, last>>
    /\ UNCHANGED <<records, scope>>

GetAuthToken(rich) ==
    /\ MayCall(rich)
    /\ \E force_refresh \in BOOLEAN :
       \E auth \in AuthInputs(rich, force_refresh \/ ~is_token_valid(St)) :
          Done("get_auth_token", [force_refresh |-> force_refresh],
               get_auth_token(St, force_refresh, auth))

RegisterIpn(rich) ==
    /\ MayCall(rich)
    /\ \E ipn_data \in {ValidIPN} \cup (IF rich THEN {PyNone} ELSE {}) :
       \E auth \in AuthInputs(rich, IsInstance(ipn_data, "IPNData")
                                       /\ ~is_token_valid(St)) :
       \E reply \in BusinessInputs(rich, auth, {Response(200, IPNBody)}) :
          Done("register_ipn", [ipn_data |-> ipn_data],
               register_ipn(St, ipn_data, auth, reply))

SubmitOrderOf(rich, orders) ==
    /\ MayCall(rich)
    /\ \E order_data \in orders :
       \E auth \in AuthInputs(rich, IsInstance(order_data, "OrderData")
                                       /\ ~is_token_valid(St)) :
       \E reply \in BusinessInputs(rich, auth, {Response(200, OrderBody)}) :
          Done("submit_order", [order_data |-> order_data],
               submit_order(St, order_data, auth, reply))

SubmitOrder(rich) ==
    SubmitOrderOf(rich, {ValidOrder} \cup (IF rich THEN {PyNone} ELSE {}))

\* The status replies drawn: the lean one reports a completed transaction.
StatusReplies200(rich) ==
    IF rich
    THEN {Response(200, b) : b \in StatusBodies}
    ELSE {Response(200, StatusBody(PyStr("Completed"), PyNum(TransactionAmount)))}

GetTransactionStatus(rich) ==
    /\ MayCall(rich)
    /\ \E id \in IF rich THEN TrackingIds ELSE {PyStr("X")} :
       \E auth \in AuthInputs(rich, Truthy(id) /\ ~is_token_valid(St)) :
       \E reply \in BusinessInputs(rich, auth, StatusReplies200(rich)) :
          Done("get_transaction_status", [order_tracking_id |-> id],
               get_transaction_status(St, id, auth, reply))

RefundTransaction(rich) ==
    /\ MayCall(rich)
    /\ \E id \in TrackingIds :
       \E amount \in RefundAmounts :
       \E auth \in AuthInputs(rich, Truthy(id) /\ ~is_token_valid(St)) :
       \E reply \in BusinessInputs(rich, auth, StatusReplies200(rich)) :
          Done("refund_transaction",
               [order_tracking_id |-> id, amount |-> amount,
                reason |-> "Customer refund"],
               refund_transaction(St, id, amount, "Customer refund", auth, reply))

CancelOrder(rich) ==
    /\ MayCall(rich)
    /\ \E id \in TrackingIds :
       \E auth \in AuthInputs(rich, Truthy(id) /\ ~is_token_valid(St)) :
       \E reply \in BusinessInputs(rich, auth, StatusReplies200(rich)) :
          Done("cancel_order",
               [order_tracking_id |-> id, reason |-> "Customer cancellation"],
               cancel_order(St, id, "Customer cancellation", auth, reply))

\* The token lifecycle over several calls: get_auth_token and the three
\* authenticated operations.  (refund_transaction and cancel_order reach
\* the token cache only through get_transaction_status.)
Next ==
    \/ Tick(FALSE)
    \/ GetAuthToken(FALSE)
    \/ RegisterIpn(FALSE)
    \/ SubmitOrder(FALSE)
    \/ GetTransactionStatus(FALSE)

Spec == Init /\ [][Next]_vars

NextReplies ==
    \/ Tick(TRUE)
    \/ GetAuthToken(TRUE)
    \/ RegisterIpn(TRUE)
    \/ SubmitOrder(TRUE)
    \/ GetTransactionStatus(TRUE)
    \/ RefundTransaction(TRUE)
    \/ CancelOrder(TRUE)

SpecReplies == Init /\ [][NextReplies]_vars

(***************************************************************************)
(* The records of an application: it builds a configuration, a billing     *)
(* address and with it an order, assigns to the fields of the order it     *)
(* holds (the dataclasses are not frozen), and submits the order.          *)
(***************************************************************************)
\* The records are built before the order is: once the application holds
\* an order it assigns to its fields and submits it, up to MaxCalls times.
client == <<token, expires_at, now, calls, first, authTotal, issued, last>>

\* A constructor returned or raised.
Made(cls, args, out) == made' = [cls |-> cls, args |-> args, out |-> out]

NewPesapalConfig ==
    /\ order = PyNone
    /\ \E a \in ConfigInputs :
          Made("PesapalConfig", a,
               PesapalConfig_post_init(a.consumer_key, a.consumer_secret,
                                       a.api_base_url))
    /\ UNCHANGED <<client, address, order, scope>>

NewBillingAddress ==
    /\ order = PyNone
    /\ \E f \in AddressInputs :
          /\ Made("BillingAddress", f, BillingAddress_post_init(f))
          /\ address' = IF Raised(BillingAddress_post_init(f))
                         THEN address
                         ELSE BillingAddress_post_init(f).value
    /\ UNCHANGED <<client, order, scope>>

NewOrderData ==
    /\ order = PyNone
    /\ \E a \in OrderInputs(address) :
          /\ Made("OrderData", a, OrderData_post_init(a))
          /\ order' = IF Raised(OrderData_post_init(a))
                       THEN order
                       ELSE OrderData_post_init(a).value
    /\ UNCHANGED <<client, address, scope>>

\* address.to_dict()
ToDict ==
    /\ order = PyNone
    /\ address # PyNone
    /\ Made("BillingAddress.to_dict", address,
            Return(BillingAddress_to_dict(address)))
    /\ UNCHANGED <<client, address, order, scope>>

\* order.id = value, order.amount = value: a plain attribute assignment.
SetOrderAttr ==
    /\ order # PyNone
    /\ calls < MaxCalls
    /\ \/ \E value \in {""} : order' = [order EXCEPT !.id = value]
       \/ \E value \in Amounts \ {PyNone} : order' = [order EXCEPT !.amount = value]
    /\ UNCHANGED <<client, address, made, scope>>

\* order.billing_address.email_address = value; the application's address
\* is the same object.
SetAddressAttr ==
    /\ order # PyNone
    /\ calls < MaxCalls
    /\ \E value \in {PyStr("")} :
          /\ order' = [order EXCEPT !.billing_address.f["email_address"] = value]
          /\ address' = [address EXCEPT !.f["email_address"] = value]
    /\ UNCHANGED <<client, made, scope>>

\* submit_order(order) with the order the application holds.
SubmitHeldOrder ==
    /\ order # PyNone
    /\ SubmitOrderOf(FALSE, {order})

NextRecords ==
    \/ NewPesapalConfig
    \/ NewBillingAddress
    \/ NewOrderData
    \/ ToDict
    \/ SetOrderAttr
    \/ SetAddressAttr
    \/ SubmitHeldOrder

SpecRecords == Init /\ [][NextRecords]_vars

(***************************************************************************)
(* The client as a scoped resource: `with Pesapal(config) as client:`.     *)
(* The block makes calls; an exception a call raises is caught by a try    *)
(* statement of the block, or leaves the block at once.  The caller may    *)
(* also call close() itself, before, inside or after the block.            *)
(* scope.caught is the number of the call whose exception the block        *)
(* caught, scope.direct counts the caller's own close() calls.             *)
(***************************************************************************)
\* The exception on its way out of the block: that of the last call, unless
\* the block caught it.
Propagating ==
    IF Raised(last.out) /\ scope.caught # calls THEN last.out ELSE Return(PyNone)

\* Pesapal.__enter__ returns the client.
EnterBlock ==
    /\ scope.block = "none"
    /\ calls = 0
    /\ scope' = [scope EXCEPT !.block = "inside"]
    /\ UNCHANGED <<client, records>>

\* A call made inside the block.
InBlock(call) ==
    /\ scope.block = "inside"
    /\ ~Raised(Propagating)
    /\ call

\* A try statement inside the block catches the exception of the call.
CatchInBlock ==
    /\ scope.block = "inside"
    /\ Raised(Propagating)
    /\ scope' = [scope EXCEPT !.caught = calls]
    /\ UNCHANGED <<client, records>>

\* The caller calls client.close().
Close ==
    /\ scope.direct < MaxCloses
    /\ scope' = [scope EXCEPT !.session = close(@), !.direct = @ + 1]
    /\ UNCHANGED <<client, records>>

\* The with statement leaves the block: it calls __exit__ with the
\* exception on its way out of the block, if any, and re-raises that
\* exception unless __exit__ returned a true value.
ExitBlock ==
    /\ scope.block = "inside"
    /\ scope' = [scope EXCEPT
                     !.block = "left",
                     !.session = exit(scope.session).session,
                     !.escaped = IF exit(scope.session).returns
                                 THEN Return(PyNone)
                                 ELSE Propagating]
    /\ UNCHANGED <<client, records>>

NextScope ==
    \/ EnterBlock
    \/ InBlock(GetAuthToken(TRUE))
    \/ InBlock(SubmitOrder(TRUE))
    \/ InBlock(GetTransactionStatus(TRUE))
    \/ CatchInBlock
    \/ Close
    \/ ExitBlock

SpecScope == Init /\ [][NextScope]_vars

(***************************************************************************)
(* Properties.  They read the last call: its arguments, the cache and the  *)
(* clock when it started (last.st0) and when it ended (last.st1), the      *)
(* requests it sent in order, each with the gateway's answer (last.reqs),  *)
(* and its outcome (last.out).                                             *)
(***************************************************************************)
\* A token is held: the cache holds a non-empty token.
Held(st) == Truthy(st.token)

\* The clock is strictly before / at or after the cached expiry.
BeforeExpiry(st) == IsNumber(st.expires_at) /\ st.now < st.expires_at.n

ExpiryPassed(st) == IsNumber(st.expires_at) /\ st.now >= st.expires_at.n

NumAuth == Cardinality(AuthRequests(last.reqs))

NumBusiness == Cardinality(BusinessRequests(last.reqs))

\* The operations that ensure a token before their (one) request.
TokenEnsuringOps ==
    AuthenticatedOps \cup {"refund_transaction", "cancel_order"}

\* The call was not turned away by the validation of its arguments.
PassedValidation == last.out.exc # "ValueError"

\* C1 (token reuse): on a client that started with an empty cache, when the
\* first two calls are authenticated operations and the second is issued
\* while a token is held and the clock is strictly before its expiry, the
\* two calls sent exactly one token request in total: the second sent none.
C1_TokenReuse ==
    (/\ calls = 2
     /\ first \in AuthenticatedOps
     /\ last.op \in AuthenticatedOps
     /\ Held(last.st0)
     /\ BeforeExpiry(last.st0))
    => (authTotal = 1 /\ NumAuth = 0 /\ NumBusiness = 1)

C1_Witness ==
    /\ calls = 2
    /\ first \in AuthenticatedOps
    /\ last.op \in AuthenticatedOps
    /\ Held(last.st0)
    /\ BeforeExpiry(last.st0)
    /\ last.st0.now > Epoch
    /\ authTotal = 1

\* C2 (token expiry): an authenticated operation issued while a token is
\* held and the clock is at or after the cached expiry sends exactly one
\* token request, and sends it (and has its answer) before its own request.
C2_TokenExpiry ==
    (/\ last.op \in AuthenticatedOps
     /\ PassedValidation
     /\ Held(last.st0)
     /\ ExpiryPassed(last.st0))
    => (/\ NumAuth = 1
        /\ IsAuthRequest(last.reqs[1])
        /\ \A i \in BusinessRequests(last.reqs) : i > 1)

C2_Witness ==
    /\ last.op \in AuthenticatedOps
    /\ Held(last.st0)
    /\ ExpiryPassed(last.st0)
    /\ last.st0.now = last.st0.expires_at.n
    /\ NumAuth = 1
    /\ NumBusiness = 1
    /\ token # last.st0.token

\* C3 (get_auth_token): it refreshes, with one token request, if and only
\* if force_refresh is set, or no token is held, or the held token's expiry
\* is at or before the clock; otherwise it sends nothing, leaves token and
\* expiry as they were and returns the cached token.
C3_GetAuthToken ==
    last.op = "get_auth_token"
    => IF \/ last.args.force_refresh
          \/ ~Held(last.st0)
          \/ ExpiryPassed(last.st0)
       THEN Len(last.reqs) = 1 /\ IsAuthRequest(last.reqs[1])
       ELSE /\ last.reqs = << >>
            /\ token = last.st0.token
            /\ expires_at = last.st0.expires_at
            /\ last.out = Return(last.st0.token)

C3_Witness ==
    /\ last.op = "get_auth_token"
    /\ ~last.args.force_refresh
    /\ Held(last.st0)
    /\ BeforeExpiry(last.st0)
    /\ last.reqs = << >>
    /\ last.out = Return(PyStr("T1"))

\* The body of the reply to the call's token request.
AuthBody == last.reqs[1].reply.body

\* C4 (expiry): after a refresh that succeeded at clock time t, the cached
\* expiry is t + 3600 when the reply has no expiryDate, and t + L when its
\* expiryDate is the number L.  (t is the clock at the end of the call: the
\* token request is the only step of a call that takes time.)
C4_Expiry ==
    RefreshAccepted(last.op, last.reqs, last.out)
    => /\ ~HasKey(AuthBody, "expiryDate")
            => last.st1.expires_at = PyNum(last.st1.now + 3600)
       /\ (HasKey(AuthBody, "expiryDate") /\ IsNumber(AuthBody.f["expiryDate"]))
            => last.st1.expires_at =
                   PyNum(last.st1.now + AuthBody.f["expiryDate"].n)

C4_Witness ==
    /\ RefreshAccepted(last.op, last.reqs, last.out)
    /\ HasKey(AuthBody, "expiryDate")
    /\ AuthBody.f["expiryDate"] = PyNum(ShortLifetime)
    /\ last.st1.now > last.st0.now
    /\ expires_at = PyNum(last.st1.now + ShortLifetime)
    /\ IsNumber(last.st0.expires_at)
    /\ last.st0.expires_at # expires_at

\* The token-ensure step of the last call found no valid token.
NeededRefresh == ~Held(last.st0) \/ ExpiryPassed(last.st0)

\* The last call performed a refresh.
Refreshed ==
    \/ last.op = "get_auth_token" /\ (last.args.force_refresh \/ NeededRefresh)
    \/ last.op \in TokenEnsuringOps /\ PassedValidation /\ NeededRefresh

\* The operations whose errors reach the caller as _make_request raised them.
DirectOps == AuthenticatedOps \cup {"get_auth_token"}

Is2xx(reply) ==
    reply.t = "response" /\ 200 <= reply.status_code /\ reply.status_code < 300

\* The token request as the gateway expects it.
TokenRequestSent(req) ==
    /\ req.method = "POST"
    /\ req.url = "https://cybqa.pesapal.com/pesapalv3/api/Auth/RequestToken"
    /\ req.json = [consumer_key |-> "test_consumer_key",
                   consumer_secret |-> "test_consumer_secret"]
    /\ req.headers.Authorization = Absent

\* C5 (refresh): a refresh sends exactly one POST to Auth/RequestToken with
\* the consumer key and secret and no Authorization header; when the 2xx
\* reply is a JSON object without a token field, the call that refreshed
\* fails with PesapalError.
C5_Refresh ==
    Refreshed
    => /\ NumAuth = 1
       /\ TokenRequestSent(last.reqs[1])
       /\ (/\ last.op \in DirectOps
           /\ Is2xx(last.reqs[1].reply)
           /\ IsDict(AuthBody)
           /\ ~HasKey(AuthBody, "token"))
          => last.out.exc = "PesapalError"

\* C6 (bearer header): an authenticated operation that reaches the network
\* first ensures a token (a token request comes first when none is valid)
\* and, unless that refresh fails, then sends exactly one request of its
\* own, whose Authorization header is "Bearer " followed by the cached
\* token, which is the token of the most recent successful refresh.
C6_Bearer ==
    (last.op \in TokenEnsuringOps /\ last.reqs # << >>)
    => LET n == Len(last.reqs)
       IN  /\ NeededRefresh <=> IsAuthRequest(last.reqs[1])
           /\ \/ /\ n = 1
                 /\ IsAuthRequest(last.reqs[1])
                 /\ RequestFailed(last.reqs[1])
                 /\ Raised(last.out)
              \/ /\ NumBusiness = 1
                 /\ ~IsAuthRequest(last.reqs[n])
                 /\ \A i \in 1 .. n - 1 : ~RequestFailed(last.reqs[i])
                 /\ last.reqs[n].headers.Authorization =
                        PyStr("Bearer " \o Str(last.st1.token))
                 /\ last.st1.token = issued

C6_Witness ==
    /\ last.op = "submit_order"
    /\ Len(last.reqs) = 2
    /\ last.st0.token = PyStr("T1")
    /\ ExpiryPassed(last.st0)
    /\ last.reqs[2].headers.Authorization = PyStr("Bearer T2")
    /\ last.reqs[2].url =
           "https://cybqa.pesapal.com/pesapalv3/api/Transactions/SubmitOrderRequest"
    /\ token = PyStr("T2")

\* C7 (no retries): a public call sends at most one token request and at
\* most one request of its own (get_auth_token none), and sends nothing
\* after a request that failed: a failed refresh is the call's only request.
C7_NoRetries ==
    last.op # "none"
    => /\ NumAuth <= 1
       /\ NumBusiness <= 1
       /\ last.op = "get_auth_token" => NumBusiness = 0
       /\ \A i \in DOMAIN last.reqs :
             RequestFailed(last.reqs[i]) => (i = Len(last.reqs) /\ Raised(last.out))

C7_Witness ==
    /\ last.op = "refund_transaction"
    /\ Len(last.reqs) = 1
    /\ IsAuthRequest(last.reqs[1])
    /\ last.reqs[1].reply = TransportError("ReadTimeout")
    /\ last.out.exc = "PesapalError"

\* C8, as claimed: whenever the gateway answers a request of the call with
\* a status outside 2xx, whatever the body, the call fails with PesapalError
\* (no other exception kind, no result).
C8_Original ==
    \A i \in DOMAIN last.reqs :
       (last.reqs[i].reply.t = "response" /\ ~Is2xx(last.reqs[i].reply))
       => last.out.exc = "PesapalError"

\* The values a formatted message interpolates.
MsgArgs(message) == {message.args[i] : i \in DOMAIN message.args}

\* C9, as claimed, on the error statuses (4xx, 5xx): the PesapalError
\* raised for such a response has the status code in its message and, when
\* the body parses as JSON, the parsed body as its response_data.
C9_Original ==
    (/\ last.op \in DirectOps
     /\ last.reqs # << >>
     /\ last.reqs[Len(last.reqs)].reply.t = "response"
     /\ 400 <= last.reqs[Len(last.reqs)].reply.status_code
     /\ last.reqs[Len(last.reqs)].reply.status_code < 600
     /\ last.out.exc = "PesapalError")
    => LET reply == last.reqs[Len(last.reqs)].reply
       IN  /\ PyNum(reply.status_code) \in MsgArgs(last.out.message)
           /\ reply.body # NotJson => last.out.response_data = reply.body

\* C10, as claimed: when a 2xx reply parses to a JSON object with a
\* non-empty error field of any JSON type, the call fails with PesapalError
\* whose message is the nested error message, or "Unknown API error" when
\* there is none, and whose response_data is the parsed body.
C10_Original ==
    (/\ last.op \in DirectOps
     /\ last.reqs # << >>
     /\ Is2xx(last.reqs[Len(last.reqs)].reply)
     /\ IsDict(last.reqs[Len(last.reqs)].reply.body)
     /\ Truthy(DictGet(last.reqs[Len(last.reqs)].reply.body, "error", PyNone)))
    => LET body == last.reqs[Len(last.reqs)].reply.body
           error == body.f["error"]
           nested == IF IsDict(error) /\ HasKey(error, "message")
                     THEN error.f["message"]
                     ELSE PyStr("Unknown API error")
       IN  /\ last.out.exc = "PesapalError"
           /\ last.out.message = Msg("API error: {}", <<nested>>)
           /\ last.out.response_data = body

(***************************************************************************)
(* Transport failures.                                                     *)
(***************************************************************************)
\* The message a failed call reports: refund_transaction and cancel_order
\* wrap the message of the failed status lookup in their own.
Reported(out) ==
    IF out.message.fmt = "Failed to check transaction status: {}"
    THEN out.message.args[1]
    ELSE out.message

\* The request of the last call the transport failed on, if any.
TransportFailures ==
    {i \in DOMAIN last.reqs : last.reqs[i].reply.t = "exception"}

\* C11: a timeout (requests' Timeout, ReadTimeout or ConnectTimeout) makes
\* the call fail with PesapalError 'Request timed out', a connection failure
\* (ConnectionError, SSLError, ProxyError) with PesapalError 'Connection error - check your
\* internet connection'; neither carries the other's message or the generic
\* 'Request failed' one.
C11_TransportMessages ==
    \A i \in TransportFailures :
        LET exc == last.reqs[i].reply.exc
        IN  /\ last.out.exc = "PesapalError"
            /\ exc \in {"Timeout", "ReadTimeout", "ConnectTimeout"}
                  => Reported(last.out).fmt = "Request timed out"
            /\ exc \in {"ConnectionError", "SSLError", "ProxyError"}
                  => Reported(last.out).fmt =
                         "Connection error - check your internet connection"

\* submit_order's own request met a connection failure, after a token
\* request that was answered.
C11_Witness ==
    /\ last.op = "submit_order"
    /\ Len(last.reqs) = 2
    /\ last.reqs[2].reply = TransportError("ConnectionError")
    /\ last.out.exc = "PesapalError"
    /\ last.out.message.fmt = "Connection error - check your internet connection"

\* C12 (as claimed): every request the client sends carries the timeout
\* (10, 30) that __init__ stores on the session.
C12_Original ==
    \A i \in DOMAIN last.reqs :
        /\ last.reqs[i].timeout # PyNone
        /\ last.reqs[i].timeout = session_timeout

(***************************************************************************)
(* Argument validation of the operations.                                  *)
(***************************************************************************)
\* The operations that take a tracking id.
TrackingOps == {"get_transaction_status", "refund_transaction", "cancel_order"}

\* C13: called with an empty tracking id, get_transaction_status,
\* refund_transaction and cancel_order raise ValueError
\* ('order_tracking_id is required'), send no request at all and leave the
\* cached token and expiry as they were.
C13_EmptyTrackingId ==
    (last.op \in TrackingOps /\ last.args.order_tracking_id = PyStr(""))
        => /\ last.out.exc = "ValueError"
           /\ last.out.message.fmt = "order_tracking_id is required"
           /\ last.reqs = << >>
           /\ last.st1.token = last.st0.token
           /\ last.st1.expires_at = last.st0.expires_at

\* A status lookup with an empty tracking id on a client that holds a token.
C13_Witness ==
    /\ last.op = "get_transaction_status"
    /\ last.args.order_tracking_id = PyStr("")
    /\ Truthy(last.st0.token)
    /\ last.out.exc = "ValueError"

(***************************************************************************)
(* Refund and cancellation requests.  They read what the gateway answered  *)
(* to the status lookup, the last request of the call.                     *)
(***************************************************************************)
\* The status lookup of the last call was answered with a status object.
StatusReported ==
    /\ last.reqs # << >>
    /\ ~IsAuthRequest(last.reqs[Len(last.reqs)])
    /\ last.reqs[Len(last.reqs)].reply \in StatusReplies200(TRUE)

\* The description and the amount the gateway reported (Absent when the
\* answer has no such field).
ReportedDescription ==
    last.reqs[Len(last.reqs)].reply.body.f["payment_status_description"]

ReportedAmount == last.reqs[Len(last.reqs)].reply.body.f["amount"]

\* C17: refund_transaction returns a record only when the status lookup
\* reported the description 'Completed'; for every other reported
\* description, an absent one included, it raises PesapalError.
C17_RefundOnlyCompleted ==
    last.op = "refund_transaction"
        => /\ ~Raised(last.out)
                 => StatusReported /\ ReportedDescription = PyStr("Completed")
           /\ (StatusReported /\ ReportedDescription # PyStr("Completed"))
                 => last.out.exc = "PesapalError"

\* A refund asked for a transaction whose answer carries no description.
C17_Witness ==
    /\ last.op = "refund_transaction"
    /\ StatusReported
    /\ ReportedDescription = Absent
    /\ last.out.exc = "PesapalError"
    /\ last.out.message.fmt =
           "Transaction with ID {} is not completed and cannot be refunded. Status: {}"

\* The last call asked a refund of a transaction reported 'Completed' with
\* a recorded amount.
RefundOfCompleted ==
    /\ last.op = "refund_transaction"
    /\ StatusReported
    /\ ReportedDescription = PyStr("Completed")
    /\ IsNumber(ReportedAmount)

\* C18: for a transaction reported 'Completed' with recorded amount A, a
\* requested amount a <= A gives a record with refund_amount = a,
\* transaction_amount = A, request_type 'partial_refund' and status
\* 'refund_requested'; no requested amount gives refund_amount = A and
\* request_type 'full_refund'.
C18_RefundRecord ==
    RefundOfCompleted
        => /\ (IsNumber(last.args.amount) /\ last.args.amount.n <= ReportedAmount.n)
                 => /\ ~Raised(last.out)
                    /\ last.out.value.refund_amount = last.args.amount
                    /\ last.out.value.transaction_amount = ReportedAmount
                    /\ last.out.value.request_type = "partial_refund"
                    /\ last.out.value.status = "refund_requested"
           /\ last.args.amount = PyNone
                 => /\ ~Raised(last.out)
                    /\ last.out.value.refund_amount = ReportedAmount
                    /\ last.out.value.request_type = "full_refund"

\* The whole recorded amount asked back as a requested amount.
C18_Witness ==
    /\ RefundOfCompleted
    /\ last.args.amount = ReportedAmount
    /\ ~Raised(last.out)
    /\ last.out.value.request_type = "partial_refund"

\* C19: for a transaction reported 'Completed', a requested amount above
\* the recorded amount raises PesapalError ('cannot exceed transaction
\* amount') and no record is returned.
C19_RefundExceeds ==
    (RefundOfCompleted /\ IsNumber(last.args.amount)
                       /\ last.args.amount.n > ReportedAmount.n)
        => /\ last.out.exc = "PesapalError"
           /\ last.out.message.fmt =
                  "Refund amount ({}) cannot exceed transaction amount ({})"

C19_Witness ==
    /\ RefundOfCompleted
    /\ last.args.amount = PyNum(ExcessAmount)
    /\ ReportedAmount = PyNum(TransactionAmount)
    /\ last.out.exc = "PesapalError"

\* C20: cancel_order raises PesapalError ('cannot be cancelled') when the
\* status lookup reported 'Completed' or 'Failed'; when it reported
\* 'Pending' or 'Processing' it returns a record with request_type
\* 'cancellation', status 'cancellation_requested' and current_status the
\* reported description.
C20_Cancel ==
    (last.op = "cancel_order" /\ StatusReported)
        => /\ ReportedDescription \in {PyStr("Completed"), PyStr("Failed")}
                 => /\ last.out.exc = "PesapalError"
                    /\ last.out.message.fmt =
                           "Transaction with ID {} cannot be cancelled. Status: {}"
           /\ ReportedDescription \in {PyStr("Pending"), PyStr("Processing")}
                 => /\ ~Raised(last.out)
                    /\ last.out.value.request_type = "cancellation"
                    /\ last.out.value.status = "cancellation_requested"
                    /\ last.out.value.current_status = ReportedDescription

\* The cancellation of a failed transaction is refused.
C20_Witness ==
    /\ last.op = "cancel_order"
    /\ StatusReported
    /\ ReportedDescription = PyStr("Failed")
    /\ last.out.exc = "PesapalError"

(***************************************************************************)
(* The records.                                                            *)
(***************************************************************************)
\* The last construction was given an amount <= 0, an empty required field.
NonPositiveAmount ==
    made.cls = "OrderData" /\ IsNumber(made.args.amount) /\ made.args.amount.n <= 0

EmptyRequiredField ==
    /\ made.cls = "BillingAddress"
    /\ \E fld \in RequiredAddressFields : made.args[fld] = PyStr("")

\* C14: the construction of an OrderData with amount <= 0, and of a
\* BillingAddress with one of its four required fields empty, raises
\* ValueError, so every OrderData a constructor returns has amount > 0 and
\* every BillingAddress it returns has its four required fields non-empty.
C14_Construction ==
    /\ (NonPositiveAmount \/ EmptyRequiredField) => made.out.exc = "ValueError"
    /\ (made.cls = "OrderData" /\ ~Raised(made.out))
          => made.out.value.amount.n > 0
    /\ (made.cls = "BillingAddress" /\ ~Raised(made.out))
          => \A fld \in RequiredAddressFields : Truthy(made.out.value.f[fld])

\* An order with amount 0 and otherwise valid fields was turned away.
C14_Witness ==
    /\ made.cls = "OrderData"
    /\ made.args.amount = PyNum(0)
    /\ made.args.id # ""
    /\ address # PyNone
    /\ made.out.exc = "ValueError"
    /\ made.out.message.fmt = "amount must be a positive number"

\* C15 (as claimed): every order submit_order sends to the gateway has
\* amount > 0, non-empty string fields and a billing address whose
\* required fields are non-empty, whatever was done to the record between
\* its construction and the submission.
C15_Original ==
    last.op = "submit_order"
        => \A i \in BusinessRequests(last.reqs) :
               LET sent == last.reqs[i].json
               IN  /\ IsNumber(sent.amount) /\ sent.amount.n > 0
                   /\ sent.id # ""
                   /\ sent.currency # ""
                   /\ sent.description # ""
                   /\ sent.callback_url # ""
                   /\ sent.notification_id # ""
                   /\ \A fld \in RequiredAddressFields :
                          Truthy(sent.billing_address[fld])

\* C16 (as claimed): a PesapalConfig construction either raises ValueError
\* or returns a configuration with a non-empty consumer key, a non-empty
\* consumer secret and a non-empty base URL that does not end in a slash.
C16_Original ==
    made.cls = "PesapalConfig"
        => IF Raised(made.out)
           THEN made.out.exc = "ValueError"
           ELSE LET c == made.out.value
                IN  /\ c.consumer_key # ""
                    /\ c.consumer_secret # ""
                    /\ c.api_base_url # << >>
                    /\ c.api_base_url[Len(c.api_base_url)] # "/"

(***************************************************************************)
(* Refund and cancellation: requests sent, errors of the status lookup.    *)
(***************************************************************************)
AdvisoryOps == {"refund_transaction", "cancel_order"}

StatusEndpoint == urljoin(config.api_base_url, "Transactions/GetTransactionStatus")

\* C21: on every path refund_transaction and cancel_order send at most one
\* token request and at most one other request, and that one is a GET to
\* Transactions/GetTransactionStatus.
C21_ReadOnly ==
    last.op \in AdvisoryOps
        => /\ NumAuth <= 1
           /\ NumBusiness <= 1
           /\ \A i \in BusinessRequests(last.reqs) :
                  /\ last.reqs[i].method = "GET"
                  /\ last.reqs[i].url = StatusEndpoint
                  /\ last.reqs[i].json = PyNone

\* A refund that returned its record after a token request and the lookup.
C21_Witness ==
    /\ last.op = "refund_transaction"
    /\ ~Raised(last.out)
    /\ NumAuth = 1
    /\ NumBusiness = 1
    /\ last.reqs[2].method = "GET"

\* The status lookup inside the last refund or cancellation raised.
LookupFailed ==
    /\ last.op \in AdvisoryOps
    /\ Raised(last.out)
    /\ last.out.message.fmt = "Failed to check transaction status: {}"

\* C22 (as claimed): when the status lookup inside refund_transaction or
\* cancel_order fails with a PesapalError, the caller receives an error with
\* the same message and the same response_data.
C22_Original ==
    (LookupFailed /\ last.out.context.exc = "PesapalError")
        => /\ last.out.exc = "PesapalError"
           /\ last.out.message = last.out.context.message
           /\ last.out.response_data = last.out.context.response_data

(***************************************************************************)
(* The exception kinds that reach the caller.                              *)
(***************************************************************************)
\* The arguments of the last call were valid ones.
ValidInputs ==
    CASE last.op = "register_ipn" -> IsInstance(last.args.ipn_data, "IPNData")
      [] last.op = "submit_order" -> IsInstance(last.args.order_data, "OrderData")
      [] last.op \in TrackingOps -> Truthy(last.args.order_tracking_id)
      [] OTHER -> TRUE

\* C23 (as claimed): with valid inputs every public operation ends with its
\* result or with PesapalError, whatever the gateway answered and however
\* the transport failed; no other exception kind reaches the caller.
C23_Original ==
    ValidInputs => last.out.exc \in {"none", "PesapalError"}

(***************************************************************************)
(* The with-block.                                                         *)
(***************************************************************************)
\* C24: the with statement closes the session of the client exactly when
\* the block is left: session.close() has been called once for every
\* close() of the caller, and once more when the block has been left (after
\* a block that ended normally as after one an operation's exception left),
\* and the exception that left the block reaches the caller of the block.
C24_ScopedSession ==
    /\ scope.session.closes =
           scope.direct + (IF scope.block = "left" THEN 1 ELSE 0)
    /\ scope.block = "left" => scope.escaped = Propagating

\* The block was left by a PesapalError of submit_order.
C24_Witness ==
    /\ scope.block = "left"
    /\ last.op = "submit_order"
    /\ last.out.exc = "PesapalError"
    /\ scope.escaped = last.out
    /\ scope.direct = 0
    /\ scope.session.closes = 1

(***************************************************************************)
(* Serialisation of the billing address.                                   *)
(***************************************************************************)
\* The optional fields of an address that have a value.
PresentOptional(addr) == {fld \in OptionalAddressFields : addr.f[fld] # PyNone}

\* C25: to_dict returns a mapping whose keys are the four required fields
\* and the optional fields that have a value, each mapped to the value of
\* the field; an optional field without value is no key of it.
C25_ToDict ==
    made.cls = "BillingAddress.to_dict"
        => LET addr == made.args
               result == made.out.value
           IN  /\ DOMAIN result = RequiredAddressFields \cup PresentOptional(addr)
               /\ \A fld \in DOMAIN result : result[fld] = addr.f[fld]

\* An address with a country code and a city, and no other optional field.
C25_Witness ==
    /\ made.cls = "BillingAddress.to_dict"
    /\ made.args.f["city"] = PyStr("Nairobi")
    /\ made.args.f["line_1"] = PyNone
    /\ "city" \in DOMAIN made.out.value
    /\ "line_1" \notin DOMAIN made.out.value

(***************************************************************************)
(* The token cache after a refresh.                                        *)
(***************************************************************************)
\* The last call refreshed, and the refresh failed: the token request
\* raised, or its answer has no token field.
RefreshFailed ==
    /\ last.reqs # << >>
    /\ IsAuthRequest(last.reqs[1])
    /\ RequestFailed(last.reqs[1])

\* C26: a refresh that fails, for whatever reason, leaves the cached token
\* and the cached expiry as they were before it, also when
\* get_auth_token(force_refresh=True) forced it while a valid token was held.
C26_FailedRefresh ==
    RefreshFailed
        => /\ Raised(last.out)
           /\ last.st1.token = last.st0.token
           /\ last.st1.expires_at = last.st0.expires_at

\* A forced refresh failed while a valid token was held.
C26_Witness ==
    /\ last.op = "get_auth_token"
    /\ last.args.force_refresh
    /\ Held(last.st0)
    /\ BeforeExpiry(last.st0)
    /\ RefreshFailed
    /\ last.st1.token = last.st0.token

\* C27 (as claimed): whenever a token is held an expiry is held too, and
\* after a successful refresh at time t the expiry was computed at t: it is
\* not before t, whatever the type of the expiryDate of the answer.
C27_Original ==
    /\ Held(St) => IsNumber(expires_at)
    /\ (RefreshAccepted(last.op, last.reqs, last.out) /\ Held(last.st1))
          => /\ IsNumber(last.st1.expires_at)
             /\ last.st1.expires_at.n >= last.st1.now

\* The requests of the last call that carry a bearer header.
BearerRequests ==
    {i \in DOMAIN last.reqs : last.reqs[i].headers.Authorization # Absent}

\* C28 (as claimed): get_auth_token returns only a non-empty string, the
\* cached token, and no request is sent with the header 'Bearer ' or
\* 'Bearer None'.
C28_Original ==
    /\ (last.op = "get_auth_token" /\ ~Raised(last.out))
          => /\ last.out.value.k = "str"
             /\ last.out.value.s # ""
             /\ last.out.value = last.st1.token
    /\ \A i \in BearerRequests :
           last.reqs[i].headers.Authorization
               \notin {PyStr("Bearer "), PyStr("Bearer None")}

(***************************************************************************)
(* The advisory records.                                                   *)
(***************************************************************************)
\* C29 (as claimed): every record refund_transaction returns has
\* 0 < refund_amount <= transaction_amount.
C29_Original ==
    (last.op = "refund_transaction" /\ ~Raised(last.out))
        => /\ IsNumber(last.out.value.refund_amount)
           /\ IsNumber(last.out.value.transaction_amount)
           /\ 0 < last.out.value.refund_amount.n
           /\ last.out.value.refund_amount.n <= last.out.value.transaction_amount.n

\* C30: when the status lookup answered, cancel_order has three outcomes:
\* PesapalError for 'Completed' and 'Failed', a 'cancellation_requested'
\* record for 'Pending' and 'Processing', and for every other description,
\* an absent one included, a record with status
\* 'cancellation_not_applicable' that has no request_type key.
C30_CancelOutcomes ==
    (last.op = "cancel_order" /\ StatusReported)
        => CASE ReportedDescription \in {PyStr("Completed"), PyStr("Failed")} ->
                    last.out.exc = "PesapalError"
             [] ReportedDescription \in {PyStr("Pending"), PyStr("Processing")} ->
                    /\ ~Raised(last.out)
                    /\ last.out.value.status = "cancellation_requested"
             [] OTHER ->
                    /\ ~Raised(last.out)
                    /\ last.out.value.status = "cancellation_not_applicable"
                    /\ "request_type" \notin DOMAIN last.out.value

\* The cancellation of a transaction whose answer has no description.
C30_Witness ==
    /\ last.op = "cancel_order"
    /\ StatusReported
    /\ ReportedDescription = Absent
    /\ ~Raised(last.out)
    /\ last.out.value.status = "cancellation_not_applicable"
====
